---- MODULE Spec2Model ----
(***************************************************************************)
(* Model of radio-conductor (src/src/main.rs): the AudioPlayer engine with *)
(* its fade worker threads, the MusicInterface model with its UI handlers, *)
(* and the bincode persistence of the model.                               *)
(*                                                                         *)
(* Time is counted in ticks of one worker sleep (16 ms in the code).  A    *)
(* clock is stored as the number of ticks since it was started and         *)
(* saturates at its cap, past which the code no longer distinguishes       *)
(* values.  Volumes are counted in units of 1/FadeTicks, so FadeTicks is   *)
(* the full volume 1.0.  Option<T> is a sequence of length 0 or 1.         *)
(***************************************************************************)
EXTENDS Integers, Sequences, FiniteSets, TLC

\* ---------------------------------------------------------------- bounds
FadeTicks == 2      \* ticks in the 1 s fade window
MaxElapsed == 2     \* cap of the engine's elapsed clock, in ticks
MaxSinks == 3       \* sinks created per run
MaxStops == 2       \* cap of the per-sink count of stop calls
NumSlots == 2       \* grid slots per tab (rows * cols in the code)
MaxTabs == 2        \* tabs per model
MaxStreams == 4     \* output streams opened per run
FullScale == 2      \* the sample value 1.0

ChunkSize == 1024   \* samples per envelope point

None == <<>>
Some(x) == <<x>>
IsSome(o) == o # <<>>
Unwrap(o) == o[1]
Min(a, b) == IF a < b THEN a ELSE b

\* Strings and paths are sequences of bytes.  The files the user can pick:
\* two audio files and one file that is no audio.
AudioPaths == {<<1>>, <<2>>}
Paths == AudioPaths \cup {<<3>>}

VARIABLES
  audio_player,   \* the AudioPlayer the interface owns
  sinks,          \* every rodio Sink created so far, by identity
  is_fading,      \* every Arc<AtomicBool> created so far, by identity
  workers,        \* the live fade threads
  running,        \* FALSE once the UI thread has panicked
  streams_opened, \* the number of output streams opened so far
  fs,             \* the paths that hold an openable, decodable audio file
  saved,          \* the bytes of the save file
  tabs, current_tab, edit_mode, current_playing, edit_state, renaming_tab,
  tab_rename_buf  \* the serialized fields of MusicInterface

engineVars == <<audio_player, sinks, is_fading, workers, running, streams_opened>>
modelVars == <<tabs, current_tab, edit_mode, current_playing, edit_state,
               renaming_tab, tab_rename_buf>>
vars == <<engineVars, modelVars, fs, saved>>

\* The MusicInterface without its audio_player.
Model ==
  [tabs |-> tabs, current_tab |-> current_tab, edit_mode |-> edit_mode,
   current_playing |-> current_playing, edit_state |-> edit_state,
   renaming_tab |-> renaming_tab, tab_rename_buf |-> tab_rename_buf]

\* The engine operations are functions of the "world" they act on: the
\* player struct, the sinks and flags it shares with the workers, the
\* worker threads and the liveness of the process.
World == [ap |-> audio_player, sinks |-> sinks, flags |-> is_fading,
          workers |-> workers, running |-> running, streams |-> streams_opened]

\* ---------------------------------------------------------------- rodio Sink
\* Sink::try_new on the stream of the player that creates it.
NewSink(stream) == [stopped |-> FALSE, volume |-> FadeTicks, stops |-> 0, stream |-> stream]
\* Sink::stop; stops counts the calls, saturating at MaxStops.
SinkStop(s) == [s EXCEPT !.stopped = TRUE, !.stops = Min(@ + 1, MaxStops)]
SinkSetVolume(s, v) == [s EXCEPT !.volume = v]

\* ---------------------------------------------------------------- AudioPlayer
\* AudioPlayer::new: no sink, a fresh flag, no start time, duration 0.
\* An output device is taken to exist, so that try_default() succeeds.
\* It opens the default output stream; streams counts the streams opened.
AudioPlayerNew(w) ==
  [w EXCEPT !.flags = Append(@, FALSE),
            !.streams = @ + 1,
            !.ap = [sink |-> None, stream |-> w.streams + 1,
                    is_fading |-> Len(w.flags) + 1,
                    start_time |-> None, duration |-> 0]]

StopCurrent(w) ==
  IF IsSome(w.ap.sink)
  THEN [w EXCEPT !.sinks[Unwrap(w.ap.sink)] = SinkStop(@)]
  ELSE w

playNoStop(w, path, duration, files) ==
  IF path \notin files
  THEN [w EXCEPT !.running = FALSE]
  ELSE [w EXCEPT !.sinks = Append(@, NewSink(w.ap.stream)),
                 !.ap.sink = Some(Len(w.sinks) + 1),
                 !.ap.start_time = Some(0),
                 !.ap.duration = duration]

\* AudioPlayer::play: stop the current sink, then open and decode the file
\* (each unwrap panics on failure), create the sink and record the start.
play(w, path, duration, files) ==
  LET w1 == StopCurrent(w) IN
  IF path \notin files
  THEN [w1 EXCEPT !.running = FALSE]
  ELSE [w1 EXCEPT !.sinks = Append(@, NewSink(w.ap.stream)),
                  !.ap.sink = Some(Len(w1.sinks) + 1),
                  !.ap.start_time = Some(0),
                  !.ap.duration = duration]

stopKeepsStart(w) ==
  [StopCurrent(w) EXCEPT !.ap.sink = None]

\* AudioPlayer::stop
stop(w) ==
  [StopCurrent(w) EXCEPT !.ap.sink = None, !.ap.start_time = None]

NewWorker(w) ==
  [sink |-> Unwrap(w.ap.sink), flag |-> w.ap.is_fading, t |-> 0, pc |-> "loop"]

fade_outNoGuard(w) ==
  IF IsSome(w.ap.sink)
  THEN [w EXCEPT !.flags[w.ap.is_fading] = TRUE,
                 !.workers = Append(@, NewWorker(w))]
  ELSE w

\* AudioPlayer::fade_out: with a sink and a clear flag, set the flag and
\* spawn the worker on a clone of the sink and of the flag.  The flag is
\* read and written by the UI thread only while no worker of it is alive,
\* so the load and the store are one step.
fade_out(w) ==
  IF IsSome(w.ap.sink) /\ ~w.flags[w.ap.is_fading]
  THEN [w EXCEPT !.flags[w.ap.is_fading] = TRUE,
                 !.workers = Append(@, NewWorker(w))]
  ELSE w

\* AudioPlayer::elapsed
elapsed(ap) == IF IsSome(ap.start_time) THEN Unwrap(ap.start_time) ELSE 0

\* ---------------------------------------------------------------- fade worker
RemoveAt(s, i) == SubSeq(s, 1, i - 1) \o SubSeq(s, i + 1, Len(s))

worker_stepOnCurrent(w, i) ==
  LET me == w.workers[i]
      tgt == IF IsSome(w.ap.sink) THEN Unwrap(w.ap.sink) ELSE me.sink IN
  IF me.pc = "loop" /\ me.t < FadeTicks
  THEN [w EXCEPT !.sinks[tgt] = SinkSetVolume(@, FadeTicks - me.t),
                 !.workers[i].pc = "sleep"]
  ELSE IF me.pc = "loop"
  THEN [w EXCEPT !.sinks[tgt] = SinkStop(@),
                 !.workers[i].pc = "clear"]
  ELSE [w EXCEPT !.flags[me.flag] = FALSE,
                 !.workers = RemoveAt(@, i)]

\* One step of the thread spawned by fade_out.  At "loop" it tests
\* start.elapsed() < duration: inside the window it sets the volume to
\* 1.0 - progress and sleeps; past it, it stops its sink.  At "clear" it
\* stores false in its flag and ends.
worker_step(w, i) ==
  LET me == w.workers[i] IN
  IF me.pc = "loop" /\ me.t < FadeTicks
  THEN [w EXCEPT !.sinks[me.sink] = SinkSetVolume(@, FadeTicks - me.t),
                 !.workers[i].pc = "sleep"]
  ELSE IF me.pc = "loop"
  THEN [w EXCEPT !.sinks[me.sink] = SinkStop(@),
                 !.workers[i].pc = "clear"]
  ELSE [w EXCEPT !.flags[me.flag] = FALSE,
                 !.workers = RemoveAt(@, i)]

\* The passage of one tick: every clock advances up to its cap and every
\* sleeping worker wakes.
tick(w) ==
  [w EXCEPT !.ap.start_time =
                IF IsSome(@) THEN Some(Min(Unwrap(@) + 1, MaxElapsed)) ELSE @,
            !.workers = [i \in DOMAIN @ |->
                [@[i] EXCEPT !.t = Min(@ + 1, FadeTicks),
                             !.pc = IF @ = "sleep" THEN "loop" ELSE @]]]

\* ---------------------------------------------------------------- model data
\* Color32 holds premultiplied <<r, g, b, a>>.
DefaultColor == <<100, 100, 255, 255>>     \* Color32::from_rgb(100, 100, 255)
White == <<255, 255, 255, 255>>            \* Color32::WHITE
HalfWhite == <<188, 188, 188, 128>>        \* white at alpha 128, premultiplied
PickColors == {DefaultColor, HalfWhite}
\* The colors the picker of the edit popup can hand back: opaque ones,
\* premultiplied ones at alpha 128, and the transparent one.
Colors ==
  {<<r, g, b, 255>> : r \in {0, 100, 255}, g \in {0, 100, 255}, b \in {0, 100, 255}}
    \cup {<<r, g, b, 128>> : r \in {0, 188}, g \in {0, 188}, b \in {0, 188}}
    \cup {<<0, 0, 0, 0>>}
Vec2Zero == <<0, 0>>

EmptyButton ==
  [name |-> <<>>, path |-> <<>>, position |-> Vec2Zero, color |-> DefaultColor,
   waveform |-> <<>>, duration |-> 0]

DefaultEditState ==
  [editing |-> None, name_buf |-> <<>>, color_buf |-> White,
   pending_music_slot |-> None, pending_change_music |-> None]

\* format!("Tab {}", idx): the byte 84 stands for the prefix "Tab ".
TabName(idx) == <<84, idx>>

\* The serialized fields of MusicInterface::default().
DefaultModel ==
  [tabs |-> <<[name |-> TabName(1), buttons |-> <<>>]>>,
   current_tab |-> 0,
   edit_mode |-> FALSE,
   current_playing |-> None,
   edit_state |-> DefaultEditState,
   renaming_tab |-> None,
   tab_rename_buf |-> <<>>]

\* ---------------------------------------------------------------- codec
\* A blob is a sequence of tokens: one token per fixed-width word (u64
\* length or index, f32) and per byte (string bytes, bool and Option tags,
\* the four little-endian bytes of a u32).

\* Color32::to_srgba_unmultiplied (ecolor): the identity at alpha 255 and at
\* alpha 0; otherwise each channel is divided by alpha in linear space, which
\* for alpha 128 maps the channel values below as tabulated.
Unmultiply128 == (0 :> 0) @@ (188 :> 255) @@ (255 :> 255)
to_srgba_unmultiplied(c) ==
  IF c[4] = 255 \/ c[4] = 0 THEN c
  ELSE <<Unmultiply128[c[1]], Unmultiply128[c[2]], Unmultiply128[c[3]], c[4]>>

\* Color32::from_rgba_premultiplied stores its arguments as they are.
from_rgba_premultiplied(r, g, b, a) == <<r, g, b, a>>

Fail == [ok |-> FALSE]
Ok(v, rest) == [ok |-> TRUE, v |-> v, rest |-> rest]
Drop(b, n) == SubSeq(b, n + 1, Len(b))

\* color32_serde::serialize: a<<24 | b<<16 | g<<8 | r of the unmultiplied
\* channels as a little-endian u32, that is the bytes r, g, b, a.
color32_serialize(c) ==
  LET u == to_srgba_unmultiplied(c) IN <<u[1], u[2], u[3], u[4]>>

\* color32_serde::deserialize: the four bytes of the u32, low byte first,
\* handed to from_rgba_premultiplied.
color32_deserialize(b) ==
  IF Len(b) >= 4
  THEN Ok(from_rgba_premultiplied(b[1], b[2], b[3], b[4]), Drop(b, 4))
  ELSE Fail

\* vec2_serde: the array [x, y], two f32 with no length prefix.
vec2_serialize(v) == <<v[1], v[2]>>
vec2_deserialize(b) == IF Len(b) >= 2 THEN Ok(<<b[1], b[2]>>, Drop(b, 2)) ELSE Fail

SerWord(n) == <<n>>
DeWord(b) == IF Len(b) >= 1 THEN Ok(b[1], Drop(b, 1)) ELSE Fail

SerBool(x) == <<IF x THEN 1 ELSE 0>>
DeBool(b) ==
  IF Len(b) >= 1 /\ b[1] \in {0, 1} THEN Ok(b[1] = 1, Drop(b, 1)) ELSE Fail

\* String, PathBuf and Vec<f32>: a u64 length, then the elements.
SerRun(xs) == <<Len(xs)>> \o xs
DeRun(b) ==
  IF Len(b) >= 1 /\ Len(b) - 1 >= b[1]
  THEN Ok(SubSeq(b, 2, b[1] + 1), Drop(b, b[1] + 1))
  ELSE Fail

\* Option<usize>: a tag byte, then the value.
SerOptWord(o) == IF IsSome(o) THEN <<1, Unwrap(o)>> ELSE <<0>>
DeOptWord(b) ==
  IF Len(b) >= 1 /\ b[1] = 0 THEN Ok(None, Drop(b, 1))
  ELSE IF Len(b) >= 2 /\ b[1] = 1 THEN Ok(Some(b[2]), Drop(b, 2))
  ELSE Fail

\* Option<(usize, usize)>
SerOptPair(o) == IF IsSome(o) THEN <<1, Unwrap(o)[1], Unwrap(o)[2]>> ELSE <<0>>
DeOptPair(b) ==
  IF Len(b) >= 1 /\ b[1] = 0 THEN Ok(None, Drop(b, 1))
  ELSE IF Len(b) >= 3 /\ b[1] = 1 THEN Ok(Some(<<b[2], b[3]>>), Drop(b, 3))
  ELSE Fail

\* The derived Serialize impls write the fields in declaration order.
\* #[derive(Serialize)] struct MusicButton
SerButton(x) ==
  SerRun(x.name) \o SerRun(x.path) \o vec2_serialize(x.position)
    \o color32_serialize(x.color) \o SerRun(x.waveform) \o SerWord(x.duration)

RECURSIVE SerButtons(_)
SerButtons(xs) == IF xs = <<>> THEN <<>> ELSE SerButton(Head(xs)) \o SerButtons(Tail(xs))

\* #[derive(Serialize)] struct MusicTab
SerTab(t) == SerRun(t.name) \o <<Len(t.buttons)>> \o SerButtons(t.buttons)

RECURSIVE SerTabs(_)
SerTabs(xs) == IF xs = <<>> THEN <<>> ELSE SerTab(Head(xs)) \o SerTabs(Tail(xs))

\* #[derive(Serialize)] struct EditState
SerEditState(e) ==
  SerOptWord(e.editing) \o SerRun(e.name_buf) \o color32_serialize(e.color_buf)
    \o SerOptWord(e.pending_music_slot) \o SerOptWord(e.pending_change_music)

\* bincode::serialize(self): the fields of MusicInterface in order, the
\* audio_player skipped.
serialize(m) ==
  <<Len(m.tabs)>> \o SerTabs(m.tabs) \o SerWord(m.current_tab)
    \o SerBool(m.edit_mode) \o SerOptPair(m.current_playing)
    \o SerEditState(m.edit_state) \o SerOptWord(m.renaming_tab)
    \o SerRun(m.tab_rename_buf)

\* The derived Deserialize impls read the fields in declaration order and
\* fail at the first field that fails.
ButtonFields == <<"run", "run", "vec2", "color", "run", "word">>
TabFields == <<"run", "buttons">>
EditStateFields == <<"optword", "run", "color", "optword", "optword">>
InterfaceFieldsBeforePlayer == <<"tabs", "word">>
InterfaceFieldsAfterPlayer == <<"bool", "optpair", "editstate", "optword", "run">>

MkButton(v) ==
  [name |-> v[1], path |-> v[2], position |-> v[3], color |-> v[4],
   waveform |-> v[5], duration |-> v[6]]
MkTab(v) == [name |-> v[1], buttons |-> v[2]]
MkEditState(v) ==
  [editing |-> v[1], name_buf |-> v[2], color_buf |-> v[3],
   pending_music_slot |-> v[4], pending_change_music |-> v[5]]

RECURSIVE Decode(_, _)
RECURSIVE DecodeFields(_, _)
RECURSIVE DecodeVec(_, _, _)

\* One value of the kind at the head of b.
Decode(kind, b) ==
  CASE kind = "word" -> DeWord(b)
    [] kind = "bool" -> DeBool(b)
    [] kind = "run" -> DeRun(b)
    [] kind = "optword" -> DeOptWord(b)
    [] kind = "optpair" -> DeOptPair(b)
    [] kind = "vec2" -> vec2_deserialize(b)
    [] kind = "color" -> color32_deserialize(b)
    [] kind = "button" ->
         LET r == DecodeFields(ButtonFields, b) IN
         IF r.ok THEN Ok(MkButton(r.v), r.rest) ELSE Fail
    [] kind = "buttons" ->
         LET n == DeWord(b) IN
         IF n.ok THEN DecodeVec("button", n.v, n.rest) ELSE Fail
    [] kind = "tab" ->
         LET r == DecodeFields(TabFields, b) IN
         IF r.ok THEN Ok(MkTab(r.v), r.rest) ELSE Fail
    [] kind = "tabs" ->
         LET n == DeWord(b) IN
         IF n.ok THEN DecodeVec("tab", n.v, n.rest) ELSE Fail
    [] kind = "editstate" ->
         LET r == DecodeFields(EditStateFields, b) IN
         IF r.ok THEN Ok(MkEditState(r.v), r.rest) ELSE Fail

\* The fields of a struct, in order.
DecodeFields(kinds, b) ==
  IF kinds = <<>> THEN Ok(<<>>, b)
  ELSE LET r == Decode(Head(kinds), b) IN
       IF ~r.ok THEN Fail
       ELSE LET rs == DecodeFields(Tail(kinds), r.rest) IN
            IF rs.ok THEN Ok(<<r.v>> \o rs.v, rs.rest) ELSE Fail

\* The n elements of a Vec.
DecodeVec(kind, n, b) ==
  IF n = 0 THEN Ok(<<>>, b)
  ELSE LET r == Decode(kind, b) IN
       IF ~r.ok THEN Fail
       ELSE LET rs == DecodeVec(kind, n - 1, r.rest) IN
            IF rs.ok THEN Ok(<<r.v>> \o rs.v, rs.rest) ELSE Fail

MkInterface(v1, v2) ==
  [tabs |-> v1[1], current_tab |-> v1[2], edit_mode |-> v2[1],
   current_playing |-> v2[2], edit_state |-> v2[3],
   renaming_tab |-> v2[4], tab_rename_buf |-> v2[5]]

\* bincode::deserialize: the fields in order; bytes left over are allowed.
\* "defaulted" tells whether decoding got as far as the skipped audio_player
\* field, which the derive fills with AudioPlayer::default().
deserialize(b) ==
  LET r1 == DecodeFields(InterfaceFieldsBeforePlayer, b) IN
  IF ~r1.ok THEN [ok |-> FALSE, defaulted |-> FALSE]
  ELSE LET r2 == DecodeFields(InterfaceFieldsAfterPlayer, r1.rest) IN
       IF ~r2.ok THEN [ok |-> FALSE, defaulted |-> TRUE]
       ELSE [ok |-> TRUE, defaulted |-> TRUE, v |-> MkInterface(r1.v, r2.v)]

\* ---------------------------------------------------------------- MusicInterface
\* The handlers are functions of the application state a = [m, w]: m the
\* serialized fields of the interface, w the world of its audio_player.
Slots == 0..(NumSlots - 1)
Picks == {None} \cup {Some(p) : p \in Paths}
NameTexts == {<<>>, <<66>>}
RenameTexts == {<<32>>, <<67>>}

Panic(a) == [a EXCEPT !.w.running = FALSE]

\* path.file_name(): the paths of the model have one component.
FileName(path) == path

\* ---- the audio files
\* A sample is counted in units of 1/FullScale, so FullScale is the sample
\* value 1.0 of the normalized decode.
Abs(x) == IF x < 0 THEN -x ELSE x

\* What the metadata probe finds in a file: whether it opens, whether a
\* format is recognised, whether there is a default track, and the track's
\* n_frames and sample_rate (frames per tick), each of which may be absent.
Probed(n_frames, sample_rate) ==
  [open |-> TRUE, format |-> TRUE, track |-> TRUE,
   n_frames |-> n_frames, sample_rate |-> sample_rate]

\* An audio file: the number of samples the decoder yields, the step and
\* the amplitude of the wave they follow, and what the probe finds.
AudioFile(count, seed, amp, meta) ==
  [count |-> count, seed |-> seed, amp |-> amp, meta |-> meta]

\* The audio files by the byte of their path.  The durations are whole
\* numbers of ticks.
Disk ==
  (1 :> AudioFile(1, 1, 2, Probed(Some(1), Some(1))))
  @@ (2 :> AudioFile(1, 5, 2, Probed(Some(2), Some(1))))
  @@ (4 :> AudioFile(0, 1, 2, Probed(Some(0), Some(1))))
  @@ (5 :> AudioFile(1, 5, 2, [Probed(Some(1), Some(1)) EXCEPT !.open = FALSE]))
  @@ (6 :> AudioFile(ChunkSize - 1, 1, 1, [Probed(None, None) EXCEPT !.format = FALSE]))
  @@ (7 :> AudioFile(ChunkSize, 1, 2, [Probed(Some(1), Some(1)) EXCEPT !.track = FALSE]))
  @@ (8 :> AudioFile(ChunkSize + 1, 2, 2, Probed(None, Some(1))))
  @@ (9 :> AudioFile(2 * ChunkSize, 1, 1, Probed(Some(2), None)))
  @@ (10 :> AudioFile(2 * ChunkSize + 1, 3, 2, Probed(Some(4), Some(2))))
  @@ (11 :> AudioFile(2, 1, 0, Probed(Some(2), Some(1))))
  @@ (12 :> AudioFile(ChunkSize + 1, 1, 2, Probed(Some(1), Some(1))))
  @@ (13 :> AudioFile(2 * ChunkSize + 1, 1, 1, Probed(Some(2), Some(2))))

\* The files of the extraction checks.
ExtractPaths == {<<k>> : k \in (DOMAIN Disk) \ {1, 2}}

\* Option::unwrap_or
unwrap_or(o, d) == IF IsSome(o) THEN Unwrap(o) ELSE d

\* Decoder::new(file).convert_samples::<f32>().collect(): the samples of
\* the file, each within -amp..amp.
Samples(path) ==
  LET f == Disk[path[1]] IN
  [i \in 1..f.count |-> ((i * f.seed) % (2 * f.amp + 1)) - f.amp]

get_durationIgnoresRate(path) ==
  LET m == Disk[path[1]].meta IN
  IF ~m.open \/ ~m.format \/ ~m.track \/ ~IsSome(m.n_frames) THEN None
  ELSE Some(Unwrap(m.n_frames) \div unwrap_or(m.sample_rate, 1))

\* get_duration_with_symphonia: None at the first step of the probe that
\* fails or finds nothing, else n_frames / sample_rate.
get_duration_with_symphonia(path) ==
  LET m == Disk[path[1]].meta IN
  IF ~m.open THEN None
  ELSE IF ~m.format THEN None
  ELSE IF ~m.track THEN None
  ELSE IF ~IsSome(m.n_frames) THEN None
  ELSE IF ~IsSome(m.sample_rate) THEN None
  ELSE Some(Unwrap(m.n_frames) \div Unwrap(m.sample_rate))

RECURSIVE chunksExact(_, _)
chunksExact(xs, size) ==
  IF Len(xs) < size THEN <<>>
  ELSE <<SubSeq(xs, 1, size)>> \o chunksExact(SubSeq(xs, size + 1, Len(xs)), size)

\* slice::chunks(size): consecutive runs of size elements, the last one
\* shorter when the length is no multiple of size.
RECURSIVE chunks(_, _)
chunks(xs, size) ==
  IF xs = <<>> THEN <<>>
  ELSE <<SubSeq(xs, 1, Min(size, Len(xs)))>>
         \o chunks(SubSeq(xs, size + 1, Len(xs)), size)

\* chunk.iter().map(|s| s.abs()).max_by(partial_cmp).unwrap_or(0.0)
peak(chunk) ==
  IF chunk = <<>> THEN 0
  ELSE CHOOSE m \in {Abs(chunk[i]) : i \in DOMAIN chunk} :
         \A i \in DOMAIN chunk : Abs(chunk[i]) <= m

\* generate_waveform_and_duration of a file that opens and decodes: the
\* peak of every chunk of its samples, and the probed duration or 0.0.
generate_waveform_and_duration(path) ==
  LET cs == chunks(Samples(path), ChunkSize) IN
  [waveform |-> [k \in DOMAIN cs |-> peak(cs[k])],
   duration |-> unwrap_or(get_duration_with_symphonia(path), 0)]

ImportedButton(path) ==
  LET g == generate_waveform_and_duration(path) IN
  [name |-> FileName(path), path |-> path, position |-> Vec2Zero,
   color |-> DefaultColor, waveform |-> g.waveform, duration |-> g.duration]

\* Vec::resize_with(n, empty button)
ResizeWith(buttons, n) ==
  IF Len(buttons) >= n THEN SubSeq(buttons, 1, n)
  ELSE buttons \o [i \in 1..(n - Len(buttons)) |-> EmptyButton]

HasButton(m, idx) == idx < Len(m.tabs[m.current_tab + 1].buttons)
ButtonAt(m, idx) == m.tabs[m.current_tab + 1].buttons[idx + 1]

process_pending_music_slotResizes(a, picked, files) ==
  IF ~IsSome(a.m.edit_state.pending_music_slot) THEN a
  ELSE
    LET slot == Unwrap(a.m.edit_state.pending_music_slot)
        a1 == [a EXCEPT !.m.edit_state.pending_music_slot = None] IN
    IF ~IsSome(picked) THEN a1
    ELSE IF Unwrap(picked) \notin files THEN Panic(a1)
    ELSE [a1 EXCEPT !.m.tabs[a.m.current_tab + 1].buttons =
            [ResizeWith(@, slot + 1) EXCEPT ![slot + 1] = ImportedButton(Unwrap(picked))]]

\* update, "After UI: process add requests": pending_music_slot.take(),
\* the file dialog, the extraction (which panics on a file it cannot open
\* or decode), then the slot is created and overwritten.
process_pending_music_slot(a, picked, files) ==
  IF ~IsSome(a.m.edit_state.pending_music_slot) THEN a
  ELSE
    LET slot == Unwrap(a.m.edit_state.pending_music_slot)
        a1 == [a EXCEPT !.m.edit_state.pending_music_slot = None] IN
    IF ~IsSome(picked) THEN a1
    ELSE IF Unwrap(picked) \notin files THEN Panic(a1)
    ELSE [a1 EXCEPT !.m.tabs[a.m.current_tab + 1].buttons =
            [ResizeWith(@, IF Len(@) <= slot THEN slot + 1 ELSE Len(@))
               EXCEPT ![slot + 1] = ImportedButton(Unwrap(picked))]]

\* update: pending_change_music.take(), the file dialog, the extraction,
\* then name, path, waveform and duration of the button are replaced.
process_pending_change_music(a, picked, files) ==
  IF ~IsSome(a.m.edit_state.pending_change_music) THEN a
  ELSE
    LET edit_idx == Unwrap(a.m.edit_state.pending_change_music)
        a1 == [a EXCEPT !.m.edit_state.pending_change_music = None] IN
    IF ~IsSome(picked) THEN a1
    ELSE IF Unwrap(picked) \notin files THEN Panic(a1)
    ELSE
      LET path == Unwrap(picked)
          g == generate_waveform_and_duration(path)
          a2 == IF HasButton(a1.m, edit_idx)
                THEN [a1 EXCEPT !.m.tabs[a.m.current_tab + 1].buttons[edit_idx + 1] =
                        [@ EXCEPT !.name = FileName(path), !.path = path,
                                  !.waveform = g.waveform, !.duration = g.duration]]
                ELSE a1 IN
      [a2 EXCEPT !.m.edit_state.name_buf = FileName(path)]

\* update, the click handler of a button that holds a clip, outside edit
\* mode: fade out the playing button, or (after fading out whatever plays)
\* play this one.  A panic in play() leaves current_playing unassigned.
click_play(a, idx, files) ==
  LET here == Some(<<a.m.current_tab, idx>>)
      button == ButtonAt(a.m, idx) IN
  IF here = a.m.current_playing
  THEN [a EXCEPT !.w = fade_out(a.w), !.m.current_playing = None]
  ELSE
    LET w1 == IF IsSome(a.m.current_playing) THEN fade_out(a.w) ELSE a.w
        w2 == play(w1, button.path, button.duration, files) IN
    IF w2.running
    THEN [a EXCEPT !.w = w2, !.m.current_playing = here]
    ELSE [a EXCEPT !.w = w2]

\* update, one grid cell clicked: a button with a name opens the editor
\* (edit mode) or plays; a missing button or one with an empty name
\* requests an import, which the end of the frame carries out.
grid_click(a, idx, picked, files) ==
  IF HasButton(a.m, idx) /\ ButtonAt(a.m, idx).name # <<>>
  THEN IF a.m.edit_mode
       THEN [a EXCEPT !.m.edit_state.editing = Some(idx),
                      !.m.edit_state.name_buf = ButtonAt(a.m, idx).name,
                      !.m.edit_state.color_buf = ButtonAt(a.m, idx).color]
       ELSE click_play(a, idx, files)
  ELSE process_pending_music_slot(
         [a EXCEPT !.m.edit_state.pending_music_slot = Some(idx)], picked, files)

\* Edit popup, Save: the buffers are written to the button at the edited
\* index of the active tab, if there is one; the editor closes.
edit_save(m) ==
  LET edit_idx == Unwrap(m.edit_state.editing)
      m1 == IF HasButton(m, edit_idx)
            THEN [m EXCEPT !.tabs[m.current_tab + 1].buttons[edit_idx + 1] =
                    [@ EXCEPT !.name = m.edit_state.name_buf,
                              !.color = m.edit_state.color_buf]]
            ELSE m IN
  [m1 EXCEPT !.edit_state.editing = None]

\* str::trim on the model's strings: the byte 32 is the only whitespace.
RECURSIVE TrimStart(_)
TrimStart(str) ==
  IF str # <<>> /\ Head(str) = 32 THEN TrimStart(Tail(str)) ELSE str
RECURSIVE TrimEnd(_)
TrimEnd(str) ==
  IF str # <<>> /\ str[Len(str)] = 32 THEN TrimEnd(SubSeq(str, 1, Len(str) - 1)) ELSE str
Trim(str) == TrimEnd(TrimStart(str))

\* Tab bar: the rename box loses focus or Enter is pressed.
rename_commit(m) ==
  LET i == Unwrap(m.renaming_tab)
      m1 == IF Trim(m.tab_rename_buf) # <<>>
            THEN [m EXCEPT !.tabs[i + 1].name = Trim(m.tab_rename_buf)]
            ELSE m IN
  [m1 EXCEPT !.renaming_tab = None]

\* Tab bar, "+".
add_tab(m) ==
  LET idx == Len(m.tabs) + 1
      pushed == Append(m.tabs, [name |-> TabName(idx), buttons |-> <<>>]) IN
  [m EXCEPT !.tabs = pushed, !.current_tab = Len(pushed) - 1]

\* save_to_file: the write replaces the file's bytes.
save_to_file(m) == Some(serialize(m))

\* Dropping an AudioPlayer drops its Arc<Sink>: the sink stops unless a
\* fade worker still holds a clone of it.
DropPlayer(w) ==
  IF IsSome(w.ap.sink)
       /\ ~(\E i \in DOMAIN w.workers : w.workers[i].sink = Unwrap(w.ap.sink))
  THEN [w EXCEPT !.sinks[Unwrap(w.ap.sink)].stopped = TRUE]
  ELSE w

load_from_filePartial(a, file) ==
  IF ~IsSome(file) THEN a
  ELSE
    LET r == deserialize(Unwrap(file))
        w1 == IF r.defaulted THEN [a.w EXCEPT !.streams = @ + 1] ELSE a.w IN
    IF r.ok THEN [m |-> r.v, w |-> AudioPlayerNew(DropPlayer(w1))]
    ELSE IF r.defaulted
    THEN LET part == DecodeFields(InterfaceFieldsBeforePlayer, Unwrap(file)).v IN
         [a EXCEPT !.w = w1, !.m.tabs = part[1], !.m.current_tab = part[2]]
    ELSE a

load_from_fileKeepsPlayer(a, file) ==
  IF ~IsSome(file) THEN a
  ELSE
    LET r == deserialize(Unwrap(file))
        w1 == IF r.defaulted THEN [a.w EXCEPT !.streams = @ + 1] ELSE a.w IN
    IF ~r.ok THEN [a EXCEPT !.w = w1]
    ELSE [m |-> r.v, w |-> [w1 EXCEPT !.streams = @ + 1]]

\* load_from_file: read (file = None: the read fails), deserialize, give the
\* loaded interface a new AudioPlayer and replace *self.  Deserializing
\* opens a stream for the skipped audio_player field once it gets there.
load_from_file(a, file) ==
  IF ~IsSome(file) THEN a
  ELSE
    LET r == deserialize(Unwrap(file))
        w1 == IF r.defaulted THEN [a.w EXCEPT !.streams = @ + 1] ELSE a.w IN
    IF ~r.ok THEN [a EXCEPT !.w = w1]
    ELSE [m |-> r.v, w |-> AudioPlayerNew(DropPlayer(w1))]

\* ---------------------------------------------------------------- actions
SetWorld(w) ==
  /\ audio_player' = w.ap
  /\ sinks' = w.sinks
  /\ is_fading' = w.flags
  /\ workers' = w.workers
  /\ running' = w.running
  /\ streams_opened' = w.streams

SetModel(m) ==
  /\ tabs' = m.tabs
  /\ current_tab' = m.current_tab
  /\ edit_mode' = m.edit_mode
  /\ current_playing' = m.current_playing
  /\ edit_state' = m.edit_state
  /\ renaming_tab' = m.renaming_tab
  /\ tab_rename_buf' = m.tab_rename_buf

InitEngine ==
  LET w == AudioPlayerNew([ap |-> <<>>, sinks |-> <<>>, flags |-> <<>>,
                           workers |-> <<>>, running |-> TRUE, streams |-> 0]) IN
  /\ audio_player = w.ap
  /\ sinks = w.sinks
  /\ is_fading = w.flags
  /\ workers = w.workers
  /\ running = w.running
  /\ streams_opened = w.streams

\* MusicInterface::default(); no save file exists yet.
InitInterface ==
  /\ InitEngine
  /\ tabs = DefaultModel.tabs
  /\ current_tab = DefaultModel.current_tab
  /\ edit_mode = DefaultModel.edit_mode
  /\ current_playing = DefaultModel.current_playing
  /\ edit_state = DefaultModel.edit_state
  /\ renaming_tab = DefaultModel.renaming_tab
  /\ tab_rename_buf = DefaultModel.tab_rename_buf
  /\ saved = None

Init ==
  /\ InitInterface
  /\ fs = AudioPaths

\* The same with the files of the extraction checks on the disk.
InitExtract ==
  /\ InitInterface
  /\ fs = AudioPaths \cup ExtractPaths

EnginePlay(p, d) ==
  /\ running
  /\ Len(sinks) < MaxSinks
  /\ SetWorld(play(World, p, d, fs))
  /\ UNCHANGED <<modelVars, fs, saved>>

EngineStop ==
  /\ running
  /\ SetWorld(stop(World))
  /\ UNCHANGED <<modelVars, fs, saved>>

EngineFadeOut ==
  /\ running
  /\ SetWorld(fade_out(World))
  /\ UNCHANGED <<modelVars, fs, saved>>

FadeWorker(i) ==
  /\ running
  /\ i \in DOMAIN workers
  /\ workers[i].pc # "sleep"
  /\ SetWorld(worker_step(World, i))
  /\ UNCHANGED <<modelVars, fs, saved>>

Tick ==
  /\ running
  /\ SetWorld(tick(World))
  /\ UNCHANGED <<modelVars, fs, saved>>

\* The environment removes or corrupts an audio file.
FileLost(p) ==
  /\ running
  /\ p \in fs
  /\ fs' = fs \ {p}
  /\ UNCHANGED <<engineVars, modelVars, saved>>

NextEngine ==
  \/ \E p \in Paths, d \in 0..1 : EnginePlay(p, d)
  \/ EngineStop
  \/ EngineFadeOut
  \/ \E i \in DOMAIN workers : FadeWorker(i)
  \/ Tick
  \/ \E p \in Paths : FileLost(p)

SpecEngine == Init /\ [][NextEngine]_vars

\* ---------------------------------------------------------------- application
App == [m |-> Model, w |-> World]
SetApp(a) == SetModel(a.m) /\ SetWorld(a.w)

\* A click on slot idx calls play(): the slot holds a clip that is not the
\* one playing, and the interface is not in edit mode.
PlaysOnClick(idx) ==
  /\ running
  /\ HasButton(Model, idx)
  /\ ButtonAt(Model, idx).name # <<>>
  /\ ~edit_mode
  /\ current_playing # Some(<<current_tab, idx>>)

\* A click on slot idx requests an import: the slot holds no button, or
\* one with an empty name.
ImportsOnClick(idx) ==
  /\ running
  /\ ~(HasButton(Model, idx) /\ ButtonAt(Model, idx).name # <<>>)

\* A click on slot idx opens the edit popup: the interface is in edit mode
\* and the slot holds a button with a name.
OpensOnClick(idx) ==
  /\ running
  /\ edit_mode
  /\ HasButton(Model, idx)
  /\ ButtonAt(Model, idx).name # <<>>

GridClick(idx, picked) ==
  /\ running
  /\ PlaysOnClick(idx) => Len(sinks) < MaxSinks
  /\ SetApp(grid_click(App, idx, picked, fs))
  /\ UNCHANGED <<fs, saved>>

ToggleEditMode ==
  /\ running
  /\ edit_mode' = ~edit_mode
  /\ UNCHANGED <<engineVars, tabs, current_tab, current_playing, edit_state,
                 renaming_tab, tab_rename_buf, fs, saved>>

EditType(str) ==
  /\ running
  /\ IsSome(edit_state.editing)
  /\ edit_state' = [edit_state EXCEPT !.name_buf = str]
  /\ UNCHANGED <<engineVars, tabs, current_tab, edit_mode, current_playing,
                 renaming_tab, tab_rename_buf, fs, saved>>

EditColor(c) ==
  /\ running
  /\ IsSome(edit_state.editing)
  /\ edit_state' = [edit_state EXCEPT !.color_buf = c]
  /\ UNCHANGED <<engineVars, tabs, current_tab, edit_mode, current_playing,
                 renaming_tab, tab_rename_buf, fs, saved>>

EditSave ==
  /\ running
  /\ IsSome(edit_state.editing)
  /\ SetModel(edit_save(Model))
  /\ UNCHANGED <<engineVars, fs, saved>>

EditCancel ==
  /\ running
  /\ IsSome(edit_state.editing)
  /\ edit_state' = [edit_state EXCEPT !.editing = None]
  /\ UNCHANGED <<engineVars, tabs, current_tab, edit_mode, current_playing,
                 renaming_tab, tab_rename_buf, fs, saved>>

EditChangeMusic(picked) ==
  /\ running
  /\ IsSome(edit_state.editing)
  /\ SetApp(process_pending_change_music(
       [App EXCEPT !.m.edit_state.pending_change_music = edit_state.editing],
       picked, fs))
  /\ UNCHANGED <<fs, saved>>

SelectTab(i) ==
  /\ running
  /\ i < Len(tabs)
  /\ renaming_tab # Some(i)
  /\ current_tab' = i
  /\ UNCHANGED <<engineVars, tabs, edit_mode, current_playing, edit_state,
                 renaming_tab, tab_rename_buf, fs, saved>>

\* A double click is a click, too.
DoubleClickTab(i) ==
  /\ running
  /\ i < Len(tabs)
  /\ renaming_tab # Some(i)
  /\ current_tab' = i
  /\ renaming_tab' = Some(i)
  /\ tab_rename_buf' = tabs[i + 1].name
  /\ UNCHANGED <<engineVars, tabs, edit_mode, current_playing, edit_state, fs, saved>>

RenameType(str) ==
  /\ running
  /\ IsSome(renaming_tab) /\ Unwrap(renaming_tab) < Len(tabs)
  /\ tab_rename_buf' = str
  /\ UNCHANGED <<engineVars, tabs, current_tab, edit_mode, current_playing,
                 edit_state, renaming_tab, fs, saved>>

RenameCommit ==
  /\ running
  /\ IsSome(renaming_tab) /\ Unwrap(renaming_tab) < Len(tabs)
  /\ SetModel(rename_commit(Model))
  /\ UNCHANGED <<engineVars, fs, saved>>

AddTab ==
  /\ running
  /\ Len(tabs) < MaxTabs
  /\ SetModel(add_tab(Model))
  /\ UNCHANGED <<engineVars, fs, saved>>

SaveClick ==
  /\ running
  /\ saved' = save_to_file(Model)
  /\ UNCHANGED <<engineVars, modelVars, fs>>

\* The file picked for a load: unreadable, the save file, or a copy of it
\* cut short.
CutPoints(b) == {0, Len(b) \div 2, Len(b) - 1, Len(b)}
LoadInputs ==
  {None} \cup
  (IF IsSome(saved)
   THEN {Some(SubSeq(Unwrap(saved), 1, n)) : n \in CutPoints(Unwrap(saved))}
   ELSE {})

\* Files this run did not write, which decode without error: a save with
\* no tab, one whose active tab is beyond its tabs, and one of two tabs.
ForeignFiles ==
  {Some(serialize([DefaultModel EXCEPT !.tabs = <<>>])),
   Some(serialize([DefaultModel EXCEPT !.current_tab = MaxTabs])),
   Some(serialize(add_tab(DefaultModel)))}

\* update, "let tab = &mut self.tabs[self.current_tab]": the index panics
\* when the active tab is out of range.
index_tab(a) == IF a.m.current_tab < Len(a.m.tabs) THEN a ELSE Panic(a)

\* The Import button, and the rest of the frame it is clicked in.
LoadClick(file) ==
  /\ running
  /\ streams_opened + 2 <= MaxStreams
  /\ SetApp(index_tab(load_from_file(App, file)))
  /\ UNCHANGED <<fs, saved>>

Next ==
  \/ \E idx \in Slots, picked \in Picks : GridClick(idx, picked)
  \/ ToggleEditMode
  \/ \E str \in NameTexts : EditType(str)
  \/ \E c \in PickColors : EditColor(c)
  \/ EditSave
  \/ EditCancel
  \/ \E picked \in Picks : EditChangeMusic(picked)
  \/ \E i \in 0..(MaxTabs - 1) : SelectTab(i)
  \/ \E i \in 0..(MaxTabs - 1) : DoubleClickTab(i)
  \/ \E str \in RenameTexts : RenameType(str)
  \/ RenameCommit
  \/ AddTab
  \/ SaveClick
  \/ \E file \in LoadInputs \cup ForeignFiles : LoadClick(file)
  \/ \E i \in DOMAIN workers : FadeWorker(i)
  \/ Tick
  \/ \E p \in Paths : FileLost(p)

Spec == Init /\ [][Next]_vars

\* Playback: the grid (import, play, fade), the tab bar, and files that
\* disappear while their buttons remain.
NextPlay ==
  \/ \E idx \in Slots, picked \in Picks : GridClick(idx, picked)
  \/ \E i \in 0..(MaxTabs - 1) : SelectTab(i)
  \/ AddTab
  \/ \E i \in DOMAIN workers : FadeWorker(i)
  \/ Tick
  \/ \E p \in Paths : FileLost(p)

SpecPlay == Init /\ [][NextPlay]_vars

\* Persistence: save and load around imports and playback on the first
\* slot, with the fade workers running.  Playback leaves one sink of
\* headroom: the loads multiply the engine's states.
NextPersist ==
  \/ \E picked \in {None, Some(<<1>>)} :
       Len(sinks) + 1 < MaxSinks /\ GridClick(0, picked)
  \/ SaveClick
  \/ \E file \in LoadInputs : LoadClick(file)
  \/ \E i \in DOMAIN workers : FadeWorker(i)
  \/ Tick

SpecPersist == Init /\ [][NextPersist]_vars

\* The codec on the models the editor produces: imports into the first
\* slot, edits of its color, save and load.
NextCodec ==
  \/ \E picked \in {None, Some(<<1>>)} : GridClick(0, picked)
  \/ ToggleEditMode
  \/ \E c \in PickColors : EditColor(c)
  \/ EditSave
  \/ AddTab
  \/ SaveClick
  \/ \E file \in LoadInputs : LoadClick(file)

SpecCodec == Init /\ [][NextCodec]_vars

\* The color codec on the colors of the picker: a clip is imported, its
\* editor opened, a color picked, and the interface (whose edit state holds
\* the picked color) saved and loaded.
NextColor ==
  \/ (edit_mode \/ ~HasButton(Model, 0)) /\ GridClick(0, Some(<<1>>))
  \/ ToggleEditMode
  \/ \E c \in Colors : EditColor(c)
  \/ SaveClick
  \/ IsSome(saved) /\ LoadClick(saved)

SpecColor == Init /\ [][NextColor]_vars

\* The tab bar with save and load, the load also of files of other runs.
NextTabs ==
  \/ \E i \in 0..(MaxTabs - 1) : SelectTab(i)
  \/ \E i \in 0..(MaxTabs - 1) : DoubleClickTab(i)
  \/ \E str \in RenameTexts : RenameType(str)
  \/ RenameCommit
  \/ AddTab
  \/ SaveClick
  \/ \E file \in LoadInputs \cup ForeignFiles : LoadClick(file)

SpecTabs == Init /\ [][NextTabs]_vars

\* One clip on the grid: imported, played and faded by clicks, while time
\* passes and the fade workers run.
NextClip ==
  \/ \E idx \in Slots, picked \in {None, Some(<<1>>)} : GridClick(idx, picked)
  \/ \E i \in DOMAIN workers : FadeWorker(i)
  \/ Tick

SpecClip == Init /\ [][NextClip]_vars

\* Editing without playback: imports (cancelled, of an audio file, of a
\* file that is no audio), the edit popup, and the tab bar.
EditPicks == {None, Some(<<1>>), Some(<<3>>)}
NextEdit ==
  \/ \E idx \in Slots, picked \in EditPicks :
       ~PlaysOnClick(idx) /\ GridClick(idx, picked)
  \/ ToggleEditMode
  \/ \E str \in NameTexts : EditType(str)
  \/ EditSave
  \/ EditCancel
  \/ \E picked \in EditPicks : EditChangeMusic(picked)
  \/ \E i \in 0..(MaxTabs - 1) : SelectTab(i)
  \/ AddTab

SpecEdit == Init /\ [][NextEdit]_vars

\* Extraction: imports of the files of the extraction checks.
NextExtract ==
  \E idx \in Slots, picked \in {None} \cup {Some(p) : p \in ExtractPaths} :
    ImportsOnClick(idx) /\ GridClick(idx, picked)

SpecExtract == InitExtract /\ [][NextExtract]_vars

\* The grid without playback: imports of one file into every slot of every
\* tab, the edit popup with its Save, and the tab bar.
GridPicks == {None, Some(<<1>>)}
NextGrid ==
  \/ \E idx \in Slots, picked \in GridPicks :
       ~PlaysOnClick(idx) /\ GridClick(idx, picked)
  \/ ToggleEditMode
  \/ EditSave
  \/ \E i \in 0..(MaxTabs - 1) : SelectTab(i)
  \/ AddTab

SpecGrid == Init /\ [][NextGrid]_vars

\* The edit popup across tabs: imports into every tab, the popup opened on
\* buttons of the first tab only, so that the button it was opened on is
\* the one at edit_state.editing of the first tab, and the tab bar used
\* while the popup is open.
NextEditor ==
  \/ \E idx \in Slots, picked \in GridPicks :
       /\ ~PlaysOnClick(idx)
       /\ OpensOnClick(idx) => current_tab = 0
       /\ GridClick(idx, picked)
  \/ ToggleEditMode
  \/ \E str \in NameTexts : EditType(str)
  \/ EditSave
  \/ EditCancel
  \/ \E picked \in {None, Some(<<2>>)} : EditChangeMusic(picked)
  \/ \E i \in 0..(MaxTabs - 1) : SelectTab(i)
  \/ AddTab

SpecEditor == Init /\ [][NextEditor]_vars

\* Time passes and every runnable thread is scheduled.
FairSpecEngine ==
  /\ SpecEngine
  /\ WF_vars(Tick)
  /\ \A i \in 1..MaxSinks : WF_vars(FadeWorker(i))

\* The same for the clips on the grid; no click is ever forced.
FairSpecClip ==
  /\ SpecClip
  /\ WF_vars(Tick)
  /\ \A i \in 1..MaxSinks : WF_vars(FadeWorker(i))

\* ---------------------------------------------------------------- engine claims
Audible == {s \in DOMAIN sinks : ~sinks[s].stopped}
Idle(ap) == ap.sink = None /\ ap.start_time = None /\ elapsed(ap) = 0
FadingOn(s) == \E i \in DOMAIN workers : workers[i].sink = s

\* C1: at most one sink is audible (created and not stopped), it is the
\* engine's current sink, and every sink created before the newest one has
\* been stopped by the time the newest one exists.
C1_AtMostOneAudible ==
  /\ Cardinality(Audible) <= 1
  /\ \A s \in Audible : audio_player.sink = Some(s)
  /\ \A s \in DOMAIN sinks : s < Len(sinks) => sinks[s].stopped

\* play(B) ran while the worker fading A's sink was alive.
C1_Witness ==
  /\ Len(sinks) = 2
  /\ sinks[1].stopped /\ ~sinks[2].stopped
  /\ FadingOn(1)

\* C2: a step of a fade worker changes no sink but the one it was spawned
\* on; in particular never the sink of a later play().
C2_FadeTouchesOwnSinkOnly ==
  [][\A i \in DOMAIN workers :
       FadeWorker(i) =>
         \A s \in DOMAIN sinks : s # workers[i].sink => sinks'[s] = sinks[s]]_vars

\* The worker spawned on sink 1 ramped and stopped it after play() had
\* created sink 2, which is untouched.
C2_Witness ==
  /\ Len(sinks) = 2
  /\ audio_player.sink = Some(2)
  /\ sinks[1].stops = 2 /\ sinks[1].volume < FadeTicks
  /\ sinks[2] = NewSink(audio_player.stream)
  /\ workers = <<>>

\* C3: fade_out spawns exactly one worker when the engine holds a sink and
\* the flag is clear and otherwise changes nothing; it never changes the
\* engine's sink, start time or duration; at most one worker is alive.
C3_SingleFlightFade ==
  [][/\ Len(workers') <= 1
     /\ EngineFadeOut =>
          /\ audio_player' = audio_player
          /\ IF IsSome(audio_player.sink) /\ ~is_fading[audio_player.is_fading]
             THEN /\ workers' = Append(workers, NewWorker(World))
                  /\ is_fading'[audio_player.is_fading]
                  /\ sinks' = sinks
             ELSE UNCHANGED vars]_vars

\* A fade is in flight on the engine's sink, some of it already done.
C3_Witness ==
  /\ Len(workers) = 1
  /\ audio_player.sink = Some(workers[1].sink)
  /\ is_fading[audio_player.is_fading]
  /\ workers[1].pc = "sleep"

\* C4: when a fade task ends and the engine still holds the sink it faded
\* (no play() or stop() came in between), the engine is Idle: no sink, no
\* start time, elapsed() = 0.
C4_IdleAfterFade ==
  [][\A i \in DOMAIN workers :
       ( /\ FadeWorker(i)
         /\ workers[i].pc = "clear"
         /\ audio_player.sink = Some(workers[i].sink) )
       => Idle(audio_player')]_vars

\* C5: every fade task that was started completes: no worker is left on
\* the sink, and the sink is stopped.
C5_EveryFadeCompletes ==
  \A s \in 1..MaxSinks :
    FadingOn(s) ~> (~FadingOn(s) /\ s \in DOMAIN sinks /\ sinks[s].stopped)

\* C6: stop() stops the engine's current sink, if any, and no other sink,
\* and leaves the engine Idle; a worker step taken while the engine is Idle
\* leaves it Idle.
C6_StopLeavesIdle ==
  [][/\ EngineStop =>
          /\ Idle(audio_player')
          /\ \A s \in DOMAIN sinks :
               IF audio_player.sink = Some(s)
               THEN sinks'[s].stopped
               ELSE sinks'[s] = sinks[s]
     /\ \A i \in DOMAIN workers :
          (FadeWorker(i) /\ Idle(audio_player)) => Idle(audio_player')]_vars

\* stop() was called while the worker of sink 1 was running and sink 2 had
\* replaced it: sink 2 is stopped once, the engine is Idle, the worker lives.
C6_Witness ==
  /\ Idle(audio_player)
  /\ Len(sinks) = 2
  /\ sinks[2].stopped /\ sinks[2].stops = 1
  /\ FadingOn(1)

\* ---------------------------------------------------------------- application claims
\* C7: a play() whose file cannot be opened or decoded fails that attempt
\* only: the application keeps running and tabs and buttons are unchanged.
C7_FailedPlayIsLocal ==
  [][\A idx \in Slots :
       ( /\ PlaysOnClick(idx)
         /\ ButtonAt(Model, idx).path \notin fs
         /\ \E picked \in Picks : GridClick(idx, picked) )
       => (running' /\ tabs' = tabs)]_vars

\* C8: a load that cannot read or decode its file changes no field of the
\* interface: not tabs, active tab, playing reference, edit state, nor the
\* engine with its sinks, flags and workers.
C8_LoadAllOrNothing ==
  [][\A file \in LoadInputs :
       ( /\ (~IsSome(file) \/ ~deserialize(Unwrap(file)).ok)
         /\ LoadClick(file) )
       => UNCHANGED <<modelVars, audio_player, sinks, is_fading, workers, running>>]_vars

\* One load failed after decoding the tabs of a save file that differs from
\* the live model, while a clip plays.
C8_Witness ==
  /\ streams_opened = 2
  /\ IsSome(saved) /\ Unwrap(saved) # serialize(Model)
  /\ IsSome(current_playing)
  /\ IsSome(audio_player.sink)

\* C9: a successful load leaves a newly constructed engine: no sink, no
\* start time, duration 0, a new clear fading flag and a new stream.
C9_FreshEngineAfterLoad ==
  [][\A file \in LoadInputs :
       ( /\ IsSome(file)
         /\ deserialize(Unwrap(file)).ok
         /\ LoadClick(file) )
       => /\ Idle(audio_player')
          /\ audio_player'.duration = 0
          /\ audio_player'.is_fading = Len(is_fading) + 1
          /\ ~is_fading'[audio_player'.is_fading]
          /\ audio_player'.stream = streams_opened'
          /\ audio_player'.stream > streams_opened]_vars

\* A file saved while its clip played was loaded while the replaced engine
\* was fading: the engine is new and Idle, the old worker still runs.
C9_Witness ==
  /\ audio_player.stream = 3
  /\ Idle(audio_player)
  /\ is_fading = <<TRUE, FALSE>>
  /\ IsSome(current_playing)
  /\ workers # <<>>

\* C10: saving a model and loading the bytes yields an equal model: tabs,
\* names, buttons with label, path, position, color, envelope and duration,
\* and the active tab index.
C10_SaveLoadRoundTrip ==
  LET r == deserialize(serialize(Model)) IN
  r.ok /\ r.v.tabs = tabs /\ r.v.current_tab = current_tab

\* C11: every color the model holds survives the color codec: encoding it
\* to the packed u32 (bytes r, g, b, a from the lowest) and decoding that
\* gives the same quadruple, opaque or not.
C11_ColorRoundTrip ==
  LET r == color32_deserialize(color32_serialize(edit_state.color_buf)) IN
  r.ok /\ r.v = edit_state.color_buf /\ r.rest = <<>>

\* C12: the model has at least one tab and the active tab index is one of
\* its tabs, after add-tab, select-tab, rename-tab and every load of a
\* file that decodes.
C12_ActiveTabInRange ==
  Len(tabs) >= 1 /\ current_tab \in 0..(Len(tabs) - 1)

\* C13: once the playing clip has ended (elapsed() has reached its
\* duration), the playing reference is eventually cleared without a click.
C13_EndedClipIsCleared ==
  ( /\ IsSome(current_playing)
    /\ IsSome(audio_player.start_time)
    /\ elapsed(audio_player) >= audio_player.duration )
  ~> (current_playing = None)

\* C14: an import or a change of clip whose file cannot be opened or
\* decoded leaves every button as it was and the application running.
C14_FailedImportIsLocal ==
  [][\A picked \in Picks :
       ( /\ IsSome(picked)
         /\ Unwrap(picked) \notin fs
         /\ \/ \E idx \in Slots : ImportsOnClick(idx) /\ GridClick(idx, picked)
            \/ EditChangeMusic(picked) )
       => (tabs' = tabs /\ running')]_vars

\* C15: one output stream is opened per run, whatever is loaded.
C15_OneOutputStream ==
  streams_opened = 1

\* ---------------------------------------------------------------- extraction claims
\* The buttons that hold a clip, by tab and position.
Clips == {<<t, j>> \in (DOMAIN tabs) \X (1..NumSlots) :
            j \in DOMAIN tabs[t].buttons /\ tabs[t].buttons[j].path # <<>>}
ClipAt(c) == tabs[c[1]].buttons[c[2]]
ProbeFails(path) ==
  LET m == Disk[path[1]].meta IN
  ~m.open \/ ~m.format \/ ~m.track \/ ~IsSome(m.n_frames) \/ ~IsSome(m.sample_rate)

\* C16: the envelope of n samples has ceil(n / 1024) points, none for
\* n = 0; point k is the largest absolute value among the samples
\* k*1024 .. min((k+1)*1024, n) - 1, and lies within 0..1.0.
C16_EnvelopeOfWindows ==
  \A c \in Clips :
    LET smp == Samples(ClipAt(c).path)
        n == Len(smp)
        wf == ClipAt(c).waveform IN
    /\ Len(wf) = (n + ChunkSize - 1) \div ChunkSize
    /\ \A k \in 0..(Len(wf) - 1) :
         LET window == (k * ChunkSize)..(Min((k + 1) * ChunkSize, n) - 1) IN
         /\ \E i \in window : wf[k + 1] = Abs(smp[i + 1])
         /\ \A i \in window : Abs(smp[i + 1]) <= wf[k + 1]
         /\ wf[k + 1] \in 0..FullScale

\* One clip of no sample with an empty envelope, and one whose last window
\* is short and quieter than its first.
C16_Witness ==
  /\ \E c \in Clips : Samples(ClipAt(c).path) = <<>> /\ ClipAt(c).waveform = <<>>
  /\ \E c \in Clips :
       /\ Len(Samples(ClipAt(c).path)) = 2 * ChunkSize + 1
       /\ Len(ClipAt(c).waveform) = 3
       /\ ClipAt(c).waveform[3] < ClipAt(c).waveform[1]

\* C17: the duration of an imported clip is 0.0 when the probe fails at
\* any step, and the clip still has its envelope; otherwise it is
\* n_frames / sample_rate, which is not negative.
C17_DurationOrZero ==
  /\ running
  /\ \A c \in Clips :
       LET path == ClipAt(c).path
           m == Disk[path[1]].meta IN
       /\ Len(ClipAt(c).waveform) = Len(chunks(Samples(path), ChunkSize))
       /\ IF ProbeFails(path)
          THEN ClipAt(c).duration = 0
          ELSE /\ ClipAt(c).duration = Unwrap(m.n_frames) \div Unwrap(m.sample_rate)
               /\ ClipAt(c).duration >= 0

\* A clip whose probe found no sample rate, with its envelope and duration
\* 0, next to one whose probe succeeded, with duration 2.
C17_Witness ==
  /\ \E c \in Clips :
       /\ ~IsSome(Disk[ClipAt(c).path[1]].meta.sample_rate)
       /\ IsSome(Disk[ClipAt(c).path[1]].meta.n_frames)
       /\ ClipAt(c).waveform # <<>>
       /\ ClipAt(c).duration = 0
  /\ \E c \in Clips : ~ProbeFails(ClipAt(c).path) /\ ClipAt(c).duration = 2

\* C18: a fade task sets volumes of at most 1.0 on its sink, and when it
\* ends its sink has received one stop call in all, whatever play() and
\* stop() did meanwhile.
C18_FadeStopsSinkOnce ==
  [][\A i \in DOMAIN workers :
       FadeWorker(i) =>
         /\ sinks'[workers[i].sink].volume <= FadeTicks
         /\ workers[i].pc = "clear" => sinks[workers[i].sink].stops = 1]_vars

\* ---------------------------------------------------------------- grid claims
\* C19: an import into slot idx of the active tab makes its button list
\* idx + 1 long only when it was shorter, the new positions below idx
\* being empty slots; every other button of the tab and every other tab
\* is unchanged; and no step of the grid, the editor or the tab bar
\* shortens a button list or drops a tab.
C19_ImportGrowsOnDemand ==
  [][/\ \A idx \in Slots, picked \in Picks :
          ( /\ ImportsOnClick(idx)
            /\ IsSome(picked) /\ Unwrap(picked) \in fs
            /\ GridClick(idx, picked) )
          => LET old == tabs[current_tab + 1].buttons
                 new == tabs'[current_tab + 1].buttons IN
             /\ current_tab' = current_tab /\ Len(tabs') = Len(tabs)
             /\ Len(new) = (IF Len(old) <= idx THEN idx + 1 ELSE Len(old))
             /\ new[idx + 1].path = Unwrap(picked)
             /\ \A j \in (DOMAIN new) \ {idx + 1} :
                  new[j] = (IF j \in DOMAIN old THEN old[j] ELSE EmptyButton)
             /\ \A t \in (DOMAIN tabs) \ {current_tab + 1} : tabs'[t] = tabs[t]
     /\ \A t \in DOMAIN tabs :
          /\ t \in DOMAIN tabs'
          /\ Len(tabs'[t].buttons) >= Len(tabs[t].buttons)]_vars

\* An import into the second slot of the second tab created an empty slot
\* below it, and a later import filled the first tab, whose list had been
\* grown the same way before.
C19_Witness ==
  /\ Len(tabs) = 2
  /\ Len(tabs[2].buttons) = 2
  /\ tabs[2].buttons[1] = EmptyButton
  /\ tabs[2].buttons[2].path = <<1>>
  /\ Len(tabs[1].buttons) = 2
  /\ tabs[1].buttons[1].path = <<1>> /\ tabs[1].buttons[2].path = <<1>>

\* C20: the grid treats a button as an empty slot (its name is empty)
\* exactly when the button holds no clip.
C20_EmptySlotIffNoClip ==
  \A t \in DOMAIN tabs : \A j \in DOMAIN tabs[t].buttons :
    (tabs[t].buttons[j].name = <<>>) <=> (tabs[t].buttons[j].path = <<>>)

\* ---------------------------------------------------------------- session claims
\* C21: once a click on the playing button has cleared the playing
\* reference, the sink the engine holds is eventually stopped, also when
\* the worker fading an earlier clip was still running at the click.
C21_ClickedClipStops ==
  \A s \in 1..MaxSinks :
    (current_playing = None /\ audio_player.sink = Some(s))
      ~> (s \in DOMAIN sinks /\ sinks[s].stopped)

\* C22: while the playing reference is Some((t, i)), tab t has a button at
\* index i and the engine holds a session, sink and start time, started
\* with what that button stores now (play() was given its duration).
C22_PlayingRefHasSession ==
  IsSome(current_playing) =>
    LET t == Unwrap(current_playing)[1]
        i == Unwrap(current_playing)[2] IN
    /\ t < Len(tabs)
    /\ i < Len(tabs[t + 1].buttons)
    /\ IsSome(audio_player.sink)
    /\ IsSome(audio_player.start_time)
    /\ audio_player.duration = tabs[t + 1].buttons[i + 1].duration

\* C23: Save and Change Music of the edit popup change no button but the
\* one the popup was opened on, which under SpecEditor is the button at
\* edit_state.editing of the first tab, also after the active tab changed.
C23_EditorWritesItsButton ==
  [][(EditSave \/ \E picked \in Picks : EditChangeMusic(picked)) =>
       /\ Len(tabs') = Len(tabs)
       /\ \A t \in DOMAIN tabs :
            /\ Len(tabs'[t].buttons) = Len(tabs[t].buttons)
            /\ \A j \in DOMAIN tabs[t].buttons :
                 (t # 1 \/ j # Unwrap(edit_state.editing) + 1)
                   => tabs'[t].buttons[j] = tabs[t].buttons[j]]_vars

====
